---- MODULE Spec2Model ----
(***************************************************************************)
(* Model of src/co-lab_torch.stressed.py: the adaptive parallel CPU/memory *)
(* stress harness.  The sequential thread of control (the __main__ loop,   *)
(* run_tests, stress_cpu_multiprocessing, stress_cpu_recursion) is one     *)
(* program counter pc plus the frames of the active calls; the pool        *)
(* workers of one dispatch run concurrently with it and with each other.   *)
(* time.time() is the variable now, psutil's available memory is avail,    *)
(* os.cpu_count() is cpu_count: all three belong to the environment.       *)
(*                                                                         *)
(* Two specifications:                                                     *)
(*   Spec      the program as run from __main__ (lines 102-119);           *)
(*   SpecUnit  one call of stress_cpu_multiprocessing or of                *)
(*             stress_cpu_recursion with arguments drawn from bounded      *)
(*             sets, the memory reading free to change at any moment.      *)
(***************************************************************************)
EXTENDS Integers, Sequences, FiniteSets, TLC

\* ------------------------------------------------------------------ bounds
\* Largest host core count considered (os.cpu_count() ranges over 1..MaxCpuCount).
MaxCpuCount == 4
\* Largest value of the clock now; Tick is disabled beyond it.
MaxClock == 1
\* SpecUnit: largest num_processes passed to stress_cpu_multiprocessing.
MaxProcs == 2
\* SpecUnit: largest depth passed to stress_cpu_recursion.
MaxDepth == 3
\* SpecDeep: largest depth passed to stress_cpu_recursion; 9 is the least
\* depth at which ten levels are entered.
DeepDepth == 10
\* SpecUnit: the iterations and num_copies arguments handed to the dispatcher.
UnitIterations == 3
UnitCopies == 2

\* Readings of the memory probe, in MB: below, at and above the floor of 500.
MemReadings == {100, 500, 10000}
\* SpecDeep: readings of the probe, one below and one above the floor.
DeepReadings == {100, 10000}
\* SpecUnit: sizes passed to the two stress functions.
UnitSizes == {16, 20, 128}

\* ------------------------------------------------------- program constants
\* size_multipliers (line 105)
size_multipliers == <<1, 2, 4, 8, 16>>
\* max_memory_mb (line 90)
max_memory_mb == 500

\* ------------------------------------------------------------------- state
VARIABLES
    cpu_count,   \* os.cpu_count() of the host
    avail,       \* available memory in MB, as get_available_memory_mb() reads it
    now,         \* time.time()
    pc,          \* position of the sequential thread of control
    caller,      \* who called the stress function: "run_tests" or "unit"
    exc,         \* the exception that ended the program, "none" if none
    main,        \* locals of __main__: idx into size_multipliers, all_results
    dumps,       \* what json.dump was handed, one entry per call (line 117)
    rt,          \* locals of run_tests
    mp,          \* locals of stress_cpu_multiprocessing
    workers,     \* the tasks of the pool: 1..num_processes -> task
    stack,       \* frames of stress_cpu_recursion, outermost first
    rec          \* the outermost stress_cpu_recursion call: its arguments and
                 \* value, and what a counting stub of the probe and of the
                 \* kernel sees: the calls made (probes, kernels), the
                 \* readings below the floor (lows), whether line 75 was
                 \* taken and at which nesting level (aborted, abortLevel)

vars == <<cpu_count, avail, now, pc, caller, exc, main, dumps, rt, mp, workers, stack, rec>>

\* ----------------------------------------------------------------- helpers
\* int(x * 0.8) for an int x >= 0 (lines 56 and 73): the double 0.8 lies just
\* above 4/5, so the product truncates to floor(4x/5).
IntTimes08(x) == (x * 8) \div 10

\* Mutant of MpAdjust: the early return of line 58 is missing.
MpAdjustNoAbort(size, current_memory, floor) ==
    IF current_memory < floor
      THEN [size |-> IntTimes08(size), abort |-> FALSE]
      ELSE [size |-> size, abort |-> FALSE]

\* The sizing decision inlined at lines 54-58 of stress_cpu_multiprocessing:
\* the size to go on with, and whether line 58 returns 0.
MpAdjust(size, current_memory, floor) ==
    IF current_memory < floor
      THEN [size |-> IntTimes08(size), abort |-> IntTimes08(size) < 16]
      ELSE [size |-> size, abort |-> FALSE]

\* Mutant of RecAdjust: the shrunk size is used whatever it is; the check of
\* line 74 never signals the abort.
RecAdjustNoAbort(size, current_memory, floor) ==
    IF current_memory < floor
    THEN [size |-> IntTimes08(size), abort |-> FALSE]
    ELSE [size |-> size, abort |-> FALSE]

\* Mutant of RecAdjust: the test of line 74 is size <= 16.
RecAdjustLe16(size, current_memory, floor) ==
    IF current_memory < floor
      THEN [size |-> IntTimes08(size), abort |-> IntTimes08(size) <= 16]
      ELSE [size |-> size, abort |-> FALSE]

\* The sizing decision inlined at lines 71-75 of stress_cpu_recursion.
RecAdjust(size, current_memory, floor) ==
    IF current_memory < floor
      THEN [size |-> IntTimes08(size), abort |-> IntTimes08(size) < 16]
      ELSE [size |-> size, abort |-> FALSE]

\* end_time - start_time (lines 28, 37, 66)
Elapsed(start_time, end_time) == end_time - start_time

\* sum(results) over the tasks 1..n (line 62)
RECURSIVE SumTotals(_, _)
SumTotals(w, n) == IF n = 0 THEN 0 ELSE SumTotals(w, n - 1) + w[n].total_time

\* Mutant of Derive: iterations is multiplied by size_mult instead of divided.
DeriveIterUp(size_mult, cores) ==
    [ size_mult     |-> size_mult,
      size          |-> 128 * size_mult,
      iterations    |-> 1000 * size_mult,
      num_processes |-> cores \div 2,
      use_memory    |-> TRUE,
      num_copies    |-> 1000 * size_mult,
      depth         |-> 10 * size_mult,
      max_memory_mb |-> max_memory_mb,
      results       |-> <<>> ]

\* The parameters run_tests derives from size_mult and the host (lines 84-90).
Derive(size_mult, cores) ==
    [ size_mult     |-> size_mult,
      size          |-> 128 * size_mult,
      iterations    |-> 1000 \div size_mult,
      num_processes |-> cores \div 2,
      use_memory    |-> TRUE,
      num_copies    |-> 1000 * size_mult,
      depth         |-> 10 * size_mult,
      max_memory_mb |-> max_memory_mb,
      results       |-> <<>> ]

NoRt == [ size_mult |-> 0, size |-> 0, iterations |-> 0, num_processes |-> 0,
          use_memory |-> FALSE, num_copies |-> 0, depth |-> 0,
          max_memory_mb |-> 0, results |-> <<>> ]

NoMp == [ sizeArg |-> 0, size |-> 0, num_processes |-> 0, iterations |-> 0,
          use_memory |-> FALSE, num_copies |-> 0, max_memory_mb |-> 0,
          start_time |-> 0, end_time |-> 0, current_memory |-> -1,
          total_time |-> 0, ret |-> 0, retLine |-> 0 ]

NoRec == [ ret |-> 0, probes |-> 0, kernels |-> 0, aborted |-> FALSE,
           lows |-> 0, abortLevel |-> 0,
           sizeArg |-> 0, depthArg |-> 0, use_memory |-> FALSE, max_memory_mb |-> 0 ]

\* The outermost call stress_cpu_recursion(size, depth, use_memory,
\* max_memory_mb) (line 98); every nested call passes the last two on unchanged.
RecCall(size, depth, use_memory, floor) ==
    [ ret |-> 0, probes |-> 0, kernels |-> 0, aborted |-> FALSE,
      lows |-> 0, abortLevel |-> 0,
      sizeArg |-> size, depthArg |-> depth,
      use_memory |-> use_memory, max_memory_mb |-> floor ]

\* The frame of a call stress_cpu_multiprocessing(size, ...) at line 48.
MpFrame(size, num_processes, iterations, use_memory, num_copies, floor) ==
    [ sizeArg |-> size, size |-> size, num_processes |-> num_processes,
      iterations |-> iterations, use_memory |-> use_memory,
      num_copies |-> num_copies, max_memory_mb |-> floor,
      start_time |-> 0, end_time |-> 0, current_memory |-> -1,
      total_time |-> 0, ret |-> 0, retLine |-> 0 ]

\* The frame of a call stress_cpu_recursion(size, depth, ...) at line 68.
RecFrame(size, depth) ==
    [ sizeArg |-> size, size |-> size, depth |-> depth,
      current_memory |-> -1, at |-> "enter", left |-> 0, start_time |-> 0,
      kernel |-> <<>>, ret |-> 0, retLine |-> 0 ]

\* A task submitted to the pool: worker_function(size, iterations, num_copies, use_memory).
Task(size, iterations, num_copies, use_memory) ==
    [ size |-> size, iterations |-> iterations, num_copies |-> num_copies,
      use_memory |-> use_memory, at |-> "pending", start_time |-> 0,
      total_time |-> 0 ]

\* ------------------------------------------------------------------- Init
\* The host core counts considered: cpu_count // 2 (line 86) is the same for
\* an odd count above 1 and the even count below it.
HostCores == {c \in 1..MaxCpuCount : c = 1 \/ c % 2 = 0}

InitCommon ==
    /\ cpu_count \in HostCores
    /\ avail \in MemReadings
    /\ now = 0
    /\ exc = "none"
    /\ main = [idx |-> 1, all_results |-> <<>>]
    /\ dumps = <<>>
    /\ rt = NoRt
    /\ mp = NoMp
    /\ workers = <<>>
    /\ stack = <<>>
    /\ rec = NoRec

Init ==
    /\ InitCommon
    /\ pc = "main_loop"
    /\ caller = "run_tests"

InitUnit ==
    /\ InitCommon
    /\ cpu_count = 1
    /\ pc = "unit_call"
    /\ caller = "unit"

\* ------------------------------------------------------------ environment
\* Some start_time awaits its end_time: the dispatcher's wall clock (lines
\* 51-64), a worker's phase, or a kernel call of the recursion.
Timing ==
    \/ pc \in {"mp_submit", "mp_gather", "mp_raise", "mp_finish"}
    \/ pc = "rec" /\ stack[Len(stack)].at = "in_kernel"

\* The clock advances.  The program reads it only to form differences
\* end_time - start_time, so only the ticks inside such an interval are taken.
Tick ==
    /\ now < MaxClock
    /\ Timing
    /\ now' = now + 1
    /\ UNCHANGED <<cpu_count, avail, pc, caller, exc, main, dumps, rt, mp, workers, stack, rec>>

\* No stress function is being executed.
BetweenCalls == pc \in {"rt_begin", "rec_call"}

\* Available memory changes while no stress function runs.
MemoryDriftIdle ==
    /\ BetweenCalls
    /\ \E m \in MemReadings \ {avail} : avail' = m
    /\ UNCHANGED <<cpu_count, now, pc, caller, exc, main, dumps, rt, mp, workers, stack, rec>>

\* Available memory changes at any moment of a call.
MemoryDrift ==
    /\ pc \notin {"unit_call", "unit_done", "crashed"}
    /\ \E m \in MemReadings \ {avail} : avail' = m
    /\ UNCHANGED <<cpu_count, now, pc, caller, exc, main, dumps, rt, mp, workers, stack, rec>>

\* ------------------------------------------------------- __main__ (102-119)
\* Line 107-110: the for loop takes the next multiplier and calls run_tests.
MainFor ==
    /\ pc = "main_loop"
    /\ main.idx <= Len(size_multipliers)
    /\ rt' = [NoRt EXCEPT !.size_mult = size_multipliers[main.idx]]
    /\ pc' = "rt_begin"
    /\ UNCHANGED <<cpu_count, avail, now, caller, exc, main, dumps, mp, workers, stack, rec>>

\* Lines 111-113: the round's results are appended to all_results.
MainAppend ==
    /\ pc = "main_append"
    /\ main' = [main EXCEPT
                  !.all_results = Append(@, [size_multiplier |-> rt.size_mult,
                                             results |-> rt.results]),
                  !.idx = @ + 1]
    /\ rt' = NoRt
    /\ pc' = "main_loop"
    /\ UNCHANGED <<cpu_count, avail, now, caller, exc, dumps, mp, workers, stack, rec>>

\* Mutant of MainDump: the dump is made with the last multiplier still to run.
MainDumpEarly ==
    /\ pc = "main_loop"
    /\ main.idx >= Len(size_multipliers)
    /\ dumps' = Append(dumps, main.all_results)
    /\ pc' = "done"
    /\ UNCHANGED <<cpu_count, avail, now, caller, exc, main, rt, mp, workers, stack, rec>>

\* Lines 115-119: the loop is exhausted; all_results is dumped as JSON.
MainDump ==
    /\ pc = "main_loop"
    /\ main.idx > Len(size_multipliers)
    /\ dumps' = Append(dumps, main.all_results)
    /\ pc' = "done"
    /\ UNCHANGED <<cpu_count, avail, now, caller, exc, main, rt, mp, workers, stack, rec>>

\* ------------------------------------------------------- run_tests (81-100)
\* Lines 83-95: derive the round's parameters, call stress_cpu_multiprocessing.
RunTestsBegin ==
    /\ pc = "rt_begin"
    /\ LET r == Derive(rt.size_mult, cpu_count) IN
         /\ rt' = r
         /\ mp' = MpFrame(r.size, r.num_processes, r.iterations, r.use_memory,
                          r.num_copies, r.max_memory_mb)
    /\ workers' = <<>>
    /\ pc' = "mp_enter"
    /\ UNCHANGED <<cpu_count, avail, now, caller, exc, main, dumps, stack, rec>>

\* Mutant of MpRecord: the record carries the size the dispatcher ended with.
MpRecordShrunk(r, cpu_time) ==
    [ test |-> "multiprocessing CPU with memory", size |-> mp.size,
      num_processes |-> r.num_processes, iterations |-> r.iterations,
      num_copies |-> r.num_copies, time |-> cpu_time ]

\* The record appended at line 96.
MpRecord(r, cpu_time) ==
    [ test |-> "multiprocessing CPU with memory", size |-> r.size,
      num_processes |-> r.num_processes, iterations |-> r.iterations,
      num_copies |-> r.num_copies, time |-> cpu_time ]

\* The record appended at line 99.
RecRecord(r, cpu_time_recursion) ==
    [ test |-> "recursive CPU", size |-> r.size, depth |-> r.depth,
      time |-> cpu_time_recursion ]

\* Mutant of RunTestsAppendMp: the append of line 96 is missing.
RunTestsAppendMpSkip ==
    /\ pc = "mp_returned"
    /\ caller = "run_tests"
    /\ mp' = NoMp
    /\ workers' = <<>>
    /\ pc' = "rec_call"
    /\ UNCHANGED <<cpu_count, avail, now, caller, exc, main, dumps, rt, stack, rec>>

\* Lines 95-96: the dispatcher has returned; its value is recorded.
RunTestsAppendMp ==
    /\ pc = "mp_returned"
    /\ caller = "run_tests"
    /\ rt' = [rt EXCEPT !.results = Append(@, MpRecord(rt, mp.ret))]
    /\ mp' = NoMp
    /\ workers' = <<>>
    /\ pc' = "rec_call"
    /\ UNCHANGED <<cpu_count, avail, now, caller, exc, main, dumps, stack, rec>>

\* Line 98: call stress_cpu_recursion(size, depth, False, max_memory_mb).
RunTestsCallRec ==
    /\ pc = "rec_call"
    /\ stack' = <<RecFrame(rt.size, rt.depth)>>
    /\ rec' = RecCall(rt.size, rt.depth, FALSE, rt.max_memory_mb)
    /\ pc' = "rec"
    /\ UNCHANGED <<cpu_count, avail, now, caller, exc, main, dumps, rt, mp, workers>>

\* Lines 98-100: the recursion has returned; its value is recorded and
\* run_tests returns results.
RunTestsAppendRec ==
    /\ pc = "rec_returned"
    /\ caller = "run_tests"
    /\ rt' = [rt EXCEPT !.results = Append(@, RecRecord(rt, rec.ret))]
    /\ rec' = NoRec
    /\ pc' = "main_append"
    /\ UNCHANGED <<cpu_count, avail, now, caller, exc, main, dumps, mp, workers, stack>>

\* ------------------------------------- stress_cpu_multiprocessing (48-66)
\* Lines 50-58: start the wall clock, read the probe, apply the sizing rule.
MpEnter ==
    /\ pc = "mp_enter"
    /\ LET d == MpAdjust(mp.size, avail, mp.max_memory_mb) IN
         /\ mp' = [mp EXCEPT !.start_time = now, !.current_memory = avail,
                             !.size = d.size,
                             !.ret = 0,
                             !.retLine = IF d.abort THEN 58 ELSE 0]
         /\ pc' = IF d.abort THEN "mp_returned" ELSE "mp_submit"
    /\ UNCHANGED <<cpu_count, avail, now, caller, exc, main, dumps, rt, workers, stack, rec>>

\* Mutant of PoolMap: one task fewer than num_processes is submitted.
PoolMapShort(size, n, iterations, num_copies, use_memory) ==
    [w \in 1..(n - 1) |-> Task(size, iterations, num_copies, use_memory)]

\* executor.map(worker_function, [size]*n, [iterations]*n, [num_copies]*n,
\* [use_memory]*n) at line 61: the tasks handed to the pool.
PoolMap(size, n, iterations, num_copies, use_memory) ==
    [w \in 1..n |-> Task(size, iterations, num_copies, use_memory)]

\* Lines 60-61: create the pool and submit the tasks.  ProcessPoolExecutor
\* raises ValueError for max_workers <= 0.
MpSubmit ==
    /\ pc = "mp_submit"
    /\ IF mp.num_processes <= 0
         THEN /\ exc' = "ValueError"
              /\ pc' = "crashed"
              /\ UNCHANGED workers
         ELSE /\ workers' = PoolMap(mp.size, mp.num_processes, mp.iterations,
                                    mp.num_copies, mp.use_memory)
              /\ pc' = "mp_gather"
              /\ UNCHANGED exc
    /\ UNCHANGED <<cpu_count, avail, now, caller, main, dumps, rt, mp, stack, rec>>

Running(w) == workers[w].at \in {"mem", "between", "cpu"}

\* Mutant of AllDone: the fan-in goes on with the first result present.
AnyDone == \E w \in DOMAIN workers : workers[w].at = "done"

\* The fan-in of line 62 may go on: sum(results) has every task's result.
AllDone == \A w \in DOMAIN workers : workers[w].at = "done"

\* Line 62: sum(results) consumes the results in submission order; with all
\* of them present total_time is their sum.
MpGather ==
    /\ pc = "mp_gather"
    /\ AllDone
    /\ mp' = [mp EXCEPT !.total_time = SumTotals(workers, Len(workers))]
    /\ pc' = "mp_finish"
    /\ UNCHANGED <<cpu_count, avail, now, caller, exc, main, dumps, rt, workers, stack, rec>>

\* Line 62: the first result that is not a value is a raised exception; the
\* iterator cancels the tasks not yet started and the exception leaves sum().
MpGatherRaise ==
    /\ pc = "mp_gather"
    /\ \E w \in DOMAIN workers :
         /\ workers[w].at = "failed"
         /\ \A v \in 1..(w - 1) : workers[v].at = "done"
    /\ workers' = [w \in DOMAIN workers |->
                     IF workers[w].at = "pending"
                       THEN [workers[w] EXCEPT !.at = "cancelled"]
                       ELSE workers[w]]
    /\ exc' = "WorkerError"
    /\ pc' = "mp_raise"
    /\ UNCHANGED <<cpu_count, avail, now, caller, main, dumps, rt, mp, stack, rec>>

\* Line 60, leaving the with block on an exception: shutdown waits for the
\* running tasks; nothing between here and __main__ catches the exception.
MpPropagate ==
    /\ pc = "mp_raise"
    /\ \A w \in DOMAIN workers : ~Running(w)
    /\ pc' = "crashed"
    /\ UNCHANGED <<cpu_count, avail, now, caller, exc, main, dumps, rt, mp, workers, stack, rec>>

\* Mutant of MpReturn: line 66 returns total_time.
MpReturnTotal ==
    /\ pc = "mp_finish"
    /\ mp' = [mp EXCEPT !.end_time = now,
                        !.ret = mp.total_time,
                        !.retLine = 66]
    /\ pc' = "mp_returned"
    /\ UNCHANGED <<cpu_count, avail, now, caller, exc, main, dumps, rt, workers, stack, rec>>

\* Lines 64-66: stop the wall clock and return end_time - start_time.
MpReturn ==
    /\ pc = "mp_finish"
    /\ mp' = [mp EXCEPT !.end_time = now,
                        !.ret = Elapsed(mp.start_time, now),
                        !.retLine = 66]
    /\ pc' = "mp_returned"
    /\ UNCHANGED <<cpu_count, avail, now, caller, exc, main, dumps, rt, workers, stack, rec>>

\* ------------------------------------------------ worker_function (39-46)
\* Mutant of WorkerStart: the memory phase of lines 42-43 is skipped.
WorkerStartNoMem == \E w \in DOMAIN workers :
    /\ workers[w].at = "pending"
    /\ workers' = [workers EXCEPT ![w].at = "cpu", ![w].start_time = now]
    /\ UNCHANGED <<cpu_count, avail, now, pc, caller, exc, main, dumps, rt, mp, stack, rec>>

\* Lines 41-43 / 44: the task starts; with use_memory it enters
\* memory_intensive_operation (start_time at line 33), otherwise
\* cpu_bound_operation (start_time at line 18).
WorkerStart == \E w \in DOMAIN workers :
    /\ workers[w].at = "pending"
    /\ workers' = [workers EXCEPT
                     ![w].at = IF workers[w].use_memory THEN "mem" ELSE "cpu",
                     ![w].start_time = now]
    /\ UNCHANGED <<cpu_count, avail, now, pc, caller, exc, main, dumps, rt, mp, stack, rec>>

\* Lines 36-37, 43: memory_intensive_operation returns its elapsed time.
WorkerMemEnd == \E w \in DOMAIN workers :
    /\ workers[w].at = "mem"
    /\ workers' = [workers EXCEPT
                     ![w].at = "between",
                     ![w].total_time = @ + Elapsed(workers[w].start_time, now)]
    /\ UNCHANGED <<cpu_count, avail, now, pc, caller, exc, main, dumps, rt, mp, stack, rec>>

\* Lines 44, 16-18: cpu_bound_operation is entered after the memory phase.
WorkerCpuBegin == \E w \in DOMAIN workers :
    /\ workers[w].at = "between"
    /\ workers' = [workers EXCEPT ![w].at = "cpu", ![w].start_time = now]
    /\ UNCHANGED <<cpu_count, avail, now, pc, caller, exc, main, dumps, rt, mp, stack, rec>>

\* Lines 27-28, 44-46: cpu_bound_operation returns; the task returns total_time.
WorkerCpuEnd == \E w \in DOMAIN workers :
    /\ workers[w].at = "cpu"
    /\ workers' = [workers EXCEPT
                     ![w].at = "done",
                     ![w].total_time = @ + Elapsed(workers[w].start_time, now)]
    /\ UNCHANGED <<cpu_count, avail, now, pc, caller, exc, main, dumps, rt, mp, stack, rec>>

\* A running task terminates abnormally (an allocation fails, the process is
\* killed): its result is an exception.
WorkerFail == \E w \in DOMAIN workers :
    /\ Running(w)
    /\ workers' = [workers EXCEPT ![w].at = "failed"]
    /\ UNCHANGED <<cpu_count, avail, now, pc, caller, exc, main, dumps, rt, mp, stack, rec>>

Worker == WorkerStart \/ WorkerMemEnd \/ WorkerCpuBegin \/ WorkerCpuEnd \/ WorkerFail

\* ------------------------------------------- stress_cpu_recursion (68-79)
Top == stack[Len(stack)]

\* The stack with its innermost frame replaced by f.
SetTop(f) == [stack EXCEPT ![Len(stack)] = f]

\* Mutant of RecEnter: the decision carries state between checks; a low
\* reading counts only when the enclosing level's reading was low too.
RecEnterDebounce ==
    /\ pc = "rec"
    /\ Top.at = "enter"
    /\ LET prevLow == /\ Len(stack) > 1
                      /\ stack[Len(stack) - 1].current_memory < rec.max_memory_mb
           d == RecAdjust(Top.size, IF prevLow THEN avail ELSE rec.max_memory_mb,
                          rec.max_memory_mb)
       IN  /\ stack' = SetTop([Top EXCEPT !.current_memory = avail,
                                          !.size = d.size,
                                          !.at = IF d.abort THEN "ret" ELSE "branch",
                                          !.ret = 0,
                                          !.retLine = IF d.abort THEN 75 ELSE 0])
           /\ rec' = [rec EXCEPT !.probes = @ + 1,
                                 !.lows = IF avail < rec.max_memory_mb THEN @ + 1 ELSE @,
                                 !.aborted = @ \/ d.abort,
                                 !.abortLevel = IF d.abort THEN Len(stack) ELSE @]
    /\ UNCHANGED <<cpu_count, avail, now, pc, caller, exc, main, dumps, rt, mp, workers>>

\* Lines 70-75: read the probe and apply the sizing rule; line 75 returns 0.
RecEnter ==
    /\ pc = "rec"
    /\ Top.at = "enter"
    /\ LET d == RecAdjust(Top.size, avail, rec.max_memory_mb) IN
         stack' = SetTop([Top EXCEPT !.current_memory = avail,
                                     !.size = d.size,
                                     !.at = IF d.abort THEN "ret" ELSE "branch",
                                     !.ret = 0,
                                     !.retLine = IF d.abort THEN 75 ELSE 0])
    /\ rec' = [rec EXCEPT !.probes = @ + 1,
                          !.lows = IF avail < rec.max_memory_mb THEN @ + 1 ELSE @,
                          !.aborted = @ \/ RecAdjust(Top.size, avail, rec.max_memory_mb).abort,
                          !.abortLevel =
                             IF RecAdjust(Top.size, avail, rec.max_memory_mb).abort
                               THEN Len(stack) ELSE @]
    /\ UNCHANGED <<cpu_count, avail, now, pc, caller, exc, main, dumps, rt, mp, workers>>

\* Lines 76-77: depth <= 0, the base case enters cpu_bound_operation(size, 1).
RecBaseKernelBegin ==
    /\ pc = "rec"
    /\ Top.at = "branch"
    /\ Top.depth <= 0
    /\ stack' = SetTop([Top EXCEPT !.at = "in_kernel", !.start_time = now,
                                   !.kernel = <<Top.size, 1>>])
    /\ rec' = [rec EXCEPT !.kernels = @ + 1]
    /\ UNCHANGED <<cpu_count, avail, now, pc, caller, exc, main, dumps, rt, mp, workers>>

\* Mutant of RecRecurse: the nested call is made for depth - 2.
RecRecurseSkip ==
    /\ pc = "rec"
    /\ Top.at = "branch"
    /\ Top.depth > 0
    /\ stack' = Append(SetTop([Top EXCEPT !.at = "wait"]),
                       RecFrame(Top.size, Top.depth - 2))
    /\ UNCHANGED <<cpu_count, avail, now, pc, caller, exc, main, dumps, rt, mp, workers, rec>>

\* Mutant of RecRecurse: the level's own kernel call is made before the
\* nested call (the operands of line 79 swapped).
RecRecurseKernelFirst ==
    /\ pc = "rec"
    /\ Top.at = "branch"
    /\ Top.depth > 0
    /\ stack' = Append(SetTop([Top EXCEPT !.at = "wait", !.kernel = <<Top.size, 1>>]),
                       RecFrame(Top.size, Top.depth - 1))
    /\ rec' = [rec EXCEPT !.kernels = @ + 1]
    /\ UNCHANGED <<cpu_count, avail, now, pc, caller, exc, main, dumps, rt, mp, workers>>

\* Mutant of RecRecurse: the nested call is given the size the outermost call
\* was given, not the size this level ended with.
RecRecurseNominal ==
    /\ pc = "rec"
    /\ Top.at = "branch"
    /\ Top.depth > 0
    /\ stack' = Append(SetTop([Top EXCEPT !.at = "wait"]),
                       RecFrame(rec.sizeArg, Top.depth - 1))
    /\ UNCHANGED <<cpu_count, avail, now, pc, caller, exc, main, dumps, rt, mp, workers, rec>>

\* Line 79, left operand: the call for depth - 1 is made first, with the
\* size this level ended with.
RecRecurse ==
    /\ pc = "rec"
    /\ Top.at = "branch"
    /\ Top.depth > 0
    /\ stack' = Append(SetTop([Top EXCEPT !.at = "wait"]),
                       RecFrame(Top.size, Top.depth - 1))
    /\ UNCHANGED <<cpu_count, avail, now, pc, caller, exc, main, dumps, rt, mp, workers, rec>>

\* Line 79, right operand: after the nested call has returned this level
\* enters cpu_bound_operation(size, 1).
RecKernelBegin ==
    /\ pc = "rec"
    /\ Top.at = "kernel"
    /\ stack' = SetTop([Top EXCEPT !.at = "in_kernel", !.start_time = now,
                                   !.kernel = <<Top.size, 1>>])
    /\ rec' = [rec EXCEPT !.kernels = @ + 1]
    /\ UNCHANGED <<cpu_count, avail, now, pc, caller, exc, main, dumps, rt, mp, workers>>

\* Lines 27-28 and 77 / 79: cpu_bound_operation returns its elapsed time,
\* which the level returns (line 77) or adds to the nested call's value (79).
RecKernelEnd ==
    /\ pc = "rec"
    /\ Top.at = "in_kernel"
    /\ stack' = SetTop([Top EXCEPT
                          !.at = "ret",
                          !.ret = Top.left + Elapsed(Top.start_time, now),
                          !.retLine = IF Top.depth <= 0 THEN 77 ELSE 79])
    /\ UNCHANGED <<cpu_count, avail, now, pc, caller, exc, main, dumps, rt, mp, workers, rec>>

\* Mutant of RecReturn: a level whose nested call returned from line 75
\* returns 0 itself without running its kernel call.
RecReturnAbortAll ==
    /\ pc = "rec"
    /\ Top.at = "ret"
    /\ IF Len(stack) = 1
         THEN /\ stack' = <<>>
              /\ rec' = [rec EXCEPT !.ret = Top.ret]
              /\ pc' = "rec_returned"
         ELSE /\ stack' = [SubSeq(stack, 1, Len(stack) - 1) EXCEPT
                             ![Len(stack) - 1].left = Top.ret,
                             ![Len(stack) - 1].at =
                                IF Top.retLine = 75 THEN "ret" ELSE "kernel",
                             ![Len(stack) - 1].retLine =
                                IF Top.retLine = 75 THEN 75 ELSE @]
              /\ UNCHANGED <<rec, pc>>
    /\ UNCHANGED <<cpu_count, avail, now, caller, exc, main, dumps, rt, mp, workers>>

\* A level returns: to the level that called it (line 79), or, for the
\* outermost level, to the caller of stress_cpu_recursion.
RecReturn ==
    /\ pc = "rec"
    /\ Top.at = "ret"
    /\ IF Len(stack) = 1
         THEN /\ stack' = <<>>
              /\ rec' = [rec EXCEPT !.ret = Top.ret]
              /\ pc' = "rec_returned"
         ELSE /\ stack' = [SubSeq(stack, 1, Len(stack) - 1) EXCEPT
                             ![Len(stack) - 1].left = Top.ret,
                             ![Len(stack) - 1].at = "kernel"]
              /\ UNCHANGED <<rec, pc>>
    /\ UNCHANGED <<cpu_count, avail, now, caller, exc, main, dumps, rt, mp, workers>>

\* ------------------------------------------------- SpecUnit: direct calls
\* stress_cpu_multiprocessing is called with arguments of the bounded sets.
UnitCallMp ==
    /\ pc = "unit_call"
    /\ \E size \in UnitSizes, n \in 0..MaxProcs, use_memory \in BOOLEAN :
         mp' = MpFrame(size, n, UnitIterations, use_memory, UnitCopies, max_memory_mb)
    /\ workers' = <<>>
    /\ pc' = "mp_enter"
    /\ UNCHANGED <<cpu_count, avail, now, caller, exc, main, dumps, rt, stack, rec>>

\* stress_cpu_recursion is called with arguments of the bounded sets.
UnitCallRec ==
    /\ pc = "unit_call"
    /\ \E size \in UnitSizes, depth \in (-1)..MaxDepth :
         /\ stack' = <<RecFrame(size, depth)>>
         /\ rec' = RecCall(size, depth, FALSE, max_memory_mb)
    /\ pc' = "rec"
    /\ UNCHANGED <<cpu_count, avail, now, caller, exc, main, dumps, rt, mp, workers>>

\* The call returns to the harness.
UnitReturn ==
    /\ pc \in {"mp_returned", "rec_returned"}
    /\ caller = "unit"
    /\ pc' = "unit_done"
    /\ UNCHANGED <<cpu_count, avail, now, caller, exc, main, dumps, rt, mp, workers, stack, rec>>

\* ---------------------------------------------------------- specifications
Dispatcher == MpEnter \/ MpSubmit \/ MpGather \/ MpGatherRaise \/ MpPropagate \/ MpReturn

Recursion == RecEnter \/ RecBaseKernelBegin \/ RecRecurse \/ RecKernelBegin
                \/ RecKernelEnd \/ RecReturn

Next ==
    \/ MainFor \/ MainAppend \/ MainDump
    \/ RunTestsBegin \/ RunTestsAppendMp \/ RunTestsCallRec \/ RunTestsAppendRec
    \/ Dispatcher \/ Worker \/ Recursion
    \/ Tick \/ MemoryDriftIdle

Spec == Init /\ [][Next]_vars

NextUnit ==
    \/ UnitCallMp \/ UnitCallRec \/ UnitReturn
    \/ Dispatcher \/ Worker \/ Recursion
    \/ Tick \/ MemoryDrift

SpecUnit == InitUnit /\ [][NextUnit]_vars

\* A direct call stress_cpu_recursion(128, depth, ...) deep enough for ten
\* levels, as run_tests makes it at line 98 for every multiplier (depth >= 10).
UnitCallRecDeep ==
    /\ pc = "unit_call"
    /\ \E depth \in 9..DeepDepth :
         /\ stack' = <<RecFrame(128, depth)>>
         /\ rec' = RecCall(128, depth, FALSE, max_memory_mb)
    /\ pc' = "rec"
    /\ UNCHANGED <<cpu_count, avail, now, caller, exc, main, dumps, rt, mp, workers>>

\* Available memory changes before a level reads the probe at line 70, the
\* only place where the recursion observes it.
ProbeDrift ==
    /\ pc = "rec"
    /\ Top.at = "enter"
    /\ \E m \in DeepReadings \ {avail} : avail' = m
    /\ UNCHANGED <<cpu_count, now, pc, caller, exc, main, dumps, rt, mp, workers, stack, rec>>

NextDeep == UnitCallRecDeep \/ UnitReturn \/ Recursion \/ ProbeDrift

SpecDeep == InitUnit /\ [][NextDeep]_vars

\* ------------------------------------------------------------------ claims
\* The dispatcher has applied the sizing rule of the current call.
MpChecked == mp.current_memory # -1

\* The sizing rule as the specification states it, for a size as passed, the
\* reading taken, the size gone on with and whether the call returned 0 at
\* the rule's early return.
RuleHolds(sizeArg, reading, floor, size, aborted) ==
    IF reading >= floor
      THEN size = sizeArg /\ ~aborted
      ELSE /\ size = (4 * sizeArg) \div 5
           /\ aborted <=> (size < 16)

\* C1: at the dispatch point of stress_cpu_multiprocessing and at every level
\* of stress_cpu_recursion, a reading at or above the floor leaves the size
\* unchanged without abort; a reading below it makes the size
\* floor(size * 0.8), and the call aborts exactly when that is below 16.
C1_SizingRule ==
    /\ MpChecked =>
         RuleHolds(mp.sizeArg, mp.current_memory, mp.max_memory_mb, mp.size,
                   mp.retLine = 58)
    /\ \A i \in 1..Len(stack) :
         stack[i].at # "enter" =>
           RuleHolds(stack[i].sizeArg, stack[i].current_memory, rec.max_memory_mb,
                     stack[i].size, stack[i].retLine = 75)

\* C1 witness: a level shrinks 20 to 16 and goes on, the next shrinks 16 to
\* 12 and aborts.
C1_Witness ==
    /\ pc = "rec"
    /\ Len(stack) = 2
    /\ stack[1].sizeArg = 20 /\ stack[1].current_memory = 100 /\ stack[1].size = 16
    /\ stack[1].at = "wait"
    /\ stack[2].sizeArg = 16 /\ stack[2].current_memory = 100 /\ stack[2].size = 12
    /\ stack[2].retLine = 75

\* The sizing policy signals abort for the dispatcher's current call.
MpAbortSignalled ==
    /\ MpChecked
    /\ mp.current_memory < mp.max_memory_mb
    /\ (4 * mp.sizeArg) \div 5 < 16

\* C2: when the policy signals abort, stress_cpu_multiprocessing has returned
\* exactly 0 and no worker task exists for the call; every other return
\* value is non-negative.
C2_AbortReturnsZero ==
    /\ MpAbortSignalled =>
         /\ pc \in {"mp_returned", "unit_done"}
         /\ mp.ret = 0
         /\ workers = <<>>
    /\ (MpChecked /\ pc \in {"mp_returned", "unit_done"}) => mp.ret >= 0

\* C2 witness: a call with size 16 under a reading of 100 MB has returned 0.
C2_Witness ==
    /\ pc = "mp_returned"
    /\ mp.sizeArg = 16 /\ mp.current_memory = 100
    /\ mp.retLine = 58 /\ mp.ret = 0
    /\ workers = <<>>

\* The dispatcher has returned from line 66, that is without abort.
MpReturnedNormally == pc = "mp_returned" /\ mp.retLine = 66

\* C3 as stated: without abort the dispatcher returns the sum of the
\* workers' totals.
C3_ReturnsWorkerSum ==
    MpReturnedNormally => mp.ret = SumTotals(workers, Len(workers))

\* The value the dispatcher returns from line 66 is its own wall-clock time.
ReturnsWallClock ==
    MpReturnedNormally =>
      /\ mp.end_time = now
      /\ mp.ret = mp.end_time - mp.start_time
      /\ mp.total_time = SumTotals(workers, Len(workers))

\* run_tests stores the value the dispatcher returned as the record's time.
RecordsDispatcherValue ==
    (pc = "mp_returned" /\ pc' = "rec_call") =>
      /\ Len(rt'.results) = Len(rt.results) + 1
      /\ rt'.results[Len(rt'.results)].test = "multiprocessing CPU with memory"
      /\ rt'.results[Len(rt'.results)].time = mp.ret

\* C3 (amended): without abort the value the dispatcher returns, which
\* run_tests stores as the time of the 'multiprocessing CPU with memory'
\* record, is the wall-clock time end_time - start_time of the dispatch; the
\* sum of the workers' totals is total_time, which is only printed.
C3_ReturnsWallClock == []ReturnsWallClock /\ [][RecordsDispatcherValue]_vars

\* C3 witness: two workers each measured 1 second in parallel; the dispatcher
\* returns 1 while the workers' totals sum to 2.
C3_Witness ==
    /\ MpReturnedNormally
    /\ Len(workers) = 2
    /\ mp.total_time = 2
    /\ mp.ret = 1

\* The outermost stress_cpu_recursion call has returned.
RecReturned == pc = "rec_returned"

\* C4: for a depth >= 0 and no abort at any level, stress_cpu_recursion has
\* called the kernel depth + 1 times, each time for one iteration, and the
\* memory probe depth + 1 times.
C4_DepthPlusOne ==
    /\ (RecReturned /\ ~rec.aborted /\ rec.depthArg >= 0) =>
         /\ rec.kernels = rec.depthArg + 1
         /\ rec.probes = rec.depthArg + 1
    /\ \A i \in 1..Len(stack) :
         stack[i].kernel # <<>> => stack[i].kernel[2] = 1

\* C4 witness: a call for depth 3 has returned without abort after 4 kernel
\* calls and 4 probe readings.
C4_Witness ==
    /\ RecReturned
    /\ ~rec.aborted
    /\ rec.depthArg = 3
    /\ rec.kernels = 4
    /\ rec.probes = 4

\* C5 as stated: no error propagates past run_tests; a worker task that
\* terminates abnormally never ends the run.
C5_WorkerFailureContained == ~(pc = "crashed" /\ exc = "WorkerError")

\* The two records of a round, in order, with non-negative times.
TwoRecordsInOrder(results) ==
    /\ Len(results) = 2
    /\ results[1].test = "multiprocessing CPU with memory"
    /\ results[2].test = "recursive CPU"
    /\ results[1].time >= 0
    /\ results[2].time >= 0

\* C6: a run_tests call that returns yields exactly the two records
\* 'multiprocessing CPU with memory', 'recursive CPU' in this order with
\* times >= 0, and the recursion makes no probe reading and no kernel call
\* before the dispatcher has returned and its record has been appended.
C6_TwoRecordsInOrder ==
    /\ pc = "main_append" => TwoRecordsInOrder(rt.results)
    /\ \A i \in 1..Len(main.all_results) :
         TwoRecordsInOrder(main.all_results[i].results)
    /\ (stack # <<>> \/ rec.probes > 0 \/ rec.kernels > 0) =>
         /\ Len(rt.results) = 1
         /\ rt.results[1].test = "multiprocessing CPU with memory"
         /\ pc \in {"rec", "rec_returned"}
         /\ workers = <<>>

\* C6 witness: a round is complete with a dispatcher time of 1 and a
\* recursion time of 0.
C6_Witness ==
    /\ pc = "main_append"
    /\ Len(rt.results) = 2
    /\ rt.results[1].time = 1
    /\ rt.results[2].time = 0

\* all_results holds one entry per multiplier run so far, in the order of
\* size_multipliers, and is dumped once, after the last round.
RoundsInOrder ==
    /\ Len(main.all_results) = main.idx - 1
    /\ main.idx <= 6
    /\ \A i \in 1..Len(main.all_results) :
         main.all_results[i].size_multiplier = <<1, 2, 4, 8, 16>>[i]
    /\ Len(dumps) <= 1
    /\ dumps # <<>> =>
         /\ Len(main.all_results) = 5
         /\ dumps[1] = main.all_results
    /\ (pc = "done") <=> (Len(dumps) = 1)
    /\ pc \in {"rt_begin", "mp_enter", "mp_submit", "mp_gather", "mp_finish",
               "mp_returned", "rec_call", "rec", "rec_returned", "main_append"} =>
         rt.size_mult = <<1, 2, 4, 8, 16>>[main.idx]

\* A step leaves all_results alone or appends one entry to it.
AppendOnly ==
    \/ main'.all_results = main.all_results
    \/ /\ Len(main'.all_results) = Len(main.all_results) + 1
       /\ SubSeq(main'.all_results, 1, Len(main.all_results)) = main.all_results

\* C7: one round per multiplier in the order 1, 2, 4, 8, 16; all_results is
\* append-only with its entries in multiplier order; it is handed to
\* json.dump exactly once, after the round of the last multiplier.
C7_RoundsAscendingDumpOnce == []RoundsInOrder /\ [][AppendOnly]_vars

\* C7 witness: the run is done, the one dump holds the five rounds.
C7_Witness ==
    /\ pc = "done"
    /\ Len(dumps) = 1
    /\ Len(dumps[1]) = 5
    /\ dumps[1][5].size_multiplier = 16

\* C8 as stated: the parameters run_tests derives have num_processes > 0,
\* size > 0 and iterations > 0, and the dispatcher is never asked for a pool
\* of zero workers.
C8_WorkerCountPositive ==
    /\ rt.size_mult # 0 /\ pc # "rt_begin" =>
         rt.num_processes > 0 /\ rt.size > 0 /\ rt.iterations > 0
    /\ pc = "mp_submit" => mp.num_processes > 0

\* The dispatcher is past the submission of line 61 on its normal path.
MpSubmitted == pc \in {"mp_gather", "mp_finish"} \/ MpReturnedNormally

\* C9: a dispatch that does not abort submits exactly num_processes tasks,
\* all with the same parameters: the size after the sizing rule, the
\* iteration count, the copy count and the memory-phase flag of the call.
C9_IdenticalTasks ==
    MpSubmitted =>
      /\ DOMAIN workers = 1..mp.num_processes
      /\ \A w \in DOMAIN workers :
           /\ workers[w].size = mp.size
           /\ workers[w].size =
                (IF mp.current_memory < mp.max_memory_mb
                   THEN (4 * mp.sizeArg) \div 5 ELSE mp.sizeArg)
           /\ workers[w].iterations = mp.iterations
           /\ workers[w].num_copies = mp.num_copies
           /\ workers[w].use_memory = mp.use_memory

\* C9 witness: a call for size 128 and 2 processes under a low reading has
\* submitted 2 tasks of size 102.
C9_Witness ==
    /\ pc = "mp_gather"
    /\ mp.sizeArg = 128 /\ mp.num_processes = 2
    /\ Len(workers) = 2
    /\ workers[1].size = 102 /\ workers[2].size = 102

\* Past the fan-in of line 62 every task of the dispatch has completed.
FanInComplete ==
    (pc = "mp_finish" \/ MpReturnedNormally) =>
      /\ DOMAIN workers = 1..mp.num_processes
      /\ \A w \in DOMAIN workers : workers[w].at = "done"

\* A record is appended, or the recursion is entered, only with every task
\* of the dispatch completed.
RoundWaitsForWorkers ==
    (Len(rt'.results) > Len(rt.results) \/ (stack = <<>> /\ stack' # <<>>)) =>
      \A w \in DOMAIN workers : workers[w].at = "done"

\* A step of one task leaves every other task as it was.
TasksIsolated ==
    (pc = "mp_gather" /\ pc' = "mp_gather") =>
      \A w \in DOMAIN workers :
        workers'[w] # workers[w] =>
          \A v \in DOMAIN workers \ {w} : workers'[v] = workers[v]

\* C10: under every interleaving stress_cpu_multiprocessing returns, and the
\* round records its value and starts the recursion, only after every
\* submitted task has completed; a task changes no state but its own, and
\* total_time is the sum of the tasks' own totals.
C10_BlockingFanIn ==
    /\ []FanInComplete
    /\ []((pc = "mp_finish") => mp.total_time = SumTotals(workers, Len(workers)))
    /\ [][RoundWaitsForWorkers]_vars
    /\ [][TasksIsolated]_vars

\* C10 witness: the second task has completed while the first still runs,
\* and the dispatcher is held at the fan-in.
C10_Witness ==
    /\ pc = "mp_gather"
    /\ Len(workers) = 2
    /\ workers[1].at = "cpu"
    /\ workers[2].at = "done"

\* The parameters written into the records of the round all_results[i].
RoundParams(i) ==
    [ m          |-> main.all_results[i].size_multiplier,
      size       |-> main.all_results[i].results[1].size,
      iterations |-> main.all_results[i].results[1].iterations,
      copies     |-> main.all_results[i].results[1].num_copies,
      depth      |-> main.all_results[i].results[2].depth ]

\* C11: over the multipliers 1, 2, 4, 8, 16 the derived size, copy count
\* and depth grow strictly and the iteration count falls strictly, with
\* size = int(128*m), iterations = int(1000/m), copies = int(1000*m),
\* depth = int(10*m).
C11_MonotonicDerivation ==
  pc \in {"main_loop", "done"} =>
    /\ \A i \in 1..Len(main.all_results) :
         LET p == RoundParams(i) IN
           /\ p.size = 128 * p.m
           /\ p.iterations = <<1000, 500, 250, 125, 62>>[i]
           /\ p.iterations * p.m <= 1000 /\ 1000 < (p.iterations + 1) * p.m
           /\ p.copies = 1000 * p.m
           /\ p.depth = 10 * p.m
    /\ \A i, j \in 1..Len(main.all_results) :
         RoundParams(i).m < RoundParams(j).m =>
           /\ RoundParams(i).size < RoundParams(j).size
           /\ RoundParams(i).iterations > RoundParams(j).iterations
           /\ RoundParams(i).copies < RoundParams(j).copies
           /\ RoundParams(i).depth < RoundParams(j).depth

\* C11 witness: the five rounds are recorded; the last has size 2048,
\* 62 iterations, 16000 copies and depth 160.
C11_Witness ==
    /\ Len(main.all_results) = 5
    /\ RoundParams(1).size = 128 /\ RoundParams(1).iterations = 1000
    /\ RoundParams(5).size = 2048 /\ RoundParams(5).iterations = 62
    /\ RoundParams(5).copies = 16000 /\ RoundParams(5).depth = 160

\* The step taken by task w, if any: with the memory-phase flag set the task
\* goes pending, memory phase, CPU phase, done; without it pending, CPU
\* phase, done; each phase adds its elapsed time to the task's total.
TaskPhasesInOrder(w) ==
    LET t == workers[w]
        u == workers'[w]
    IN  u # t =>
          /\ t.at # "done"
          /\ t.at = "pending" =>
               /\ u.total_time = 0
               /\ u.at \in {"mem", "cpu", "cancelled"}
               /\ u.at = "mem" => t.use_memory
               /\ u.at = "cpu" => ~t.use_memory
          /\ t.at = "mem" =>
               /\ u.at \in {"between", "failed"}
               /\ u.at = "between" => u.total_time = now - t.start_time
          /\ t.at = "between" =>
               /\ u.at \in {"cpu", "failed"}
               /\ u.total_time = t.total_time
          /\ t.at = "cpu" =>
               /\ u.at \in {"done", "failed"}
               /\ u.at = "done" => u.total_time = t.total_time + (now - t.start_time)
               /\ ~t.use_memory => t.total_time = 0

\* C12: a worker with the memory-phase flag set performs the memory phase
\* (num_copies clones) first and the CPU-bound phase second and returns the
\* sum of both times; without the flag it performs the CPU-bound phase alone
\* and returns its time; the CPU-bound phase runs once in both cases.
C12_WorkerPhases ==
    /\ [][pc = "mp_gather" /\ pc' = "mp_gather" =>
            \A w \in DOMAIN workers : TaskPhasesInOrder(w)]_vars
    /\ [](\A w \in DOMAIN workers :
            /\ workers[w].at \in {"mem", "between"} => workers[w].use_memory
            /\ pc # "mp_raise" => workers[w].num_copies = mp.num_copies)

\* C12 witness: a task with the memory phase has measured 1 second in it and
\* has entered its CPU-bound phase.
C12_Witness ==
    /\ pc = "mp_gather"
    /\ workers[1].use_memory
    /\ workers[1].at = "cpu"
    /\ workers[1].total_time = 1
    /\ workers[1].num_copies = UnitCopies

\* The level stack[i] has made its sizing decision.
Decided(i) == stack[i].at # "enter"

C15_UnitBeforeNestedCall ==
    \A i \in 1..(Len(stack) - 1) : stack[i].kernel # <<>>

\* The levels that passed the sizing rule, each owing one kernel call.
WorkLevels == rec.probes - (IF rec.aborted THEN 1 ELSE 0)

\* C15 (amended): the nested call for depth - 1 is made, and returns, before
\* the level's own kernel call: all probe readings are made on the way down,
\* before any kernel call, and the kernel calls run on the way back up,
\* innermost level first.
C15_NestedCallBeforeUnit ==
    /\ \A i \in 1..(Len(stack) - 1) :
         stack[i].kernel = <<>> /\ stack[i].at = "wait"
    /\ (pc = "rec" /\ rec.kernels > 0) =>
         /\ Top.at \in {"kernel", "in_kernel", "ret"}
         /\ rec.probes >= Len(stack)
         /\ rec.kernels = WorkLevels - Len(stack) + (IF Top.kernel # <<>> THEN 1 ELSE 0)
    /\ (pc = "rec" /\ Top.at \in {"enter", "branch"}) => rec.kernels = 0

\* C15 witness: with two levels entered the inner one runs its kernel call
\* while the outer one, waiting for it, has not yet made its own.
C15_Witness ==
    /\ pc = "rec"
    /\ Len(stack) = 2
    /\ rec.probes = 2
    /\ stack[2].at = "in_kernel"
    /\ stack[1].at = "wait" /\ stack[1].kernel = <<>>
    /\ rec.kernels = 1

\* C16: with workers and kernel calls completing normally the run does not
\* fail: it stops early only on a worker's failure, no stress_cpu_recursion
\* call nests deeper than depth + 1 levels (one level for a depth <= 0), and
\* a finished run holds five entries of two records each.
C16_RunCompletes ==
    /\ pc = "crashed" => exc = "WorkerError"
    /\ Len(stack) <= (IF rec.depthArg > 0 THEN rec.depthArg ELSE 0) + 1
    /\ pc = "done" =>
         /\ Len(main.all_results) = 5
         /\ \A i \in 1..5 : Len(main.all_results[i].results) = 2

\* The parts of C16 that do not depend on the worker count: the nesting
\* bound, and the failure-free rounds of a host with two or more cores.
C16_NestingBounded ==
    /\ Len(stack) <= (IF rec.depthArg > 0 THEN rec.depthArg ELSE 0) + 1
    /\ (pc = "crashed" /\ cpu_count >= 2) => exc = "WorkerError"

ShrinkChain == <<102, 81, 64, 51, 40, 32, 25, 20, 16, 12>>

\* C18: a level starts from the size its parent ended with and ends with
\* that size, or with floor(0.8 * it) when its reading is below the floor;
\* sizes never grow with nesting; under readings all below the floor a call
\* of size 128 and depth >= 9 follows ShrinkChain, aborts at its tenth level
\* and makes exactly nine kernel calls.
C18_CumulativeShrink ==
    /\ \A i \in 2..Len(stack) : stack[i].sizeArg = stack[i - 1].size
    /\ \A i \in 1..Len(stack) :
         Decided(i) =>
           stack[i].size = IF stack[i].current_memory < max_memory_mb
                             THEN (stack[i].sizeArg * 8) \div 10
                             ELSE stack[i].sizeArg
    /\ \A i, j \in 1..Len(stack) : i < j => stack[j].size <= stack[i].size
    /\ (rec.sizeArg = 128 /\ rec.lows = rec.probes) =>
         /\ Len(stack) <= 10
         /\ \A i \in 1..Len(stack) : Decided(i) => stack[i].size = ShrinkChain[i]
         /\ \A i \in 1..Len(stack) : (stack[i].retLine = 75) <=> (Decided(i) /\ i = 10)
    /\ (RecReturned /\ rec.sizeArg = 128 /\ rec.depthArg >= 9 /\ rec.lows = rec.probes) =>
         /\ rec.probes = 10
         /\ rec.abortLevel = 10
         /\ rec.kernels = 9

\* C18 witness: a call of size 128 whose ten readings were all below the
\* floor has returned after an abort at the tenth level and nine kernel calls.
C18_Witness ==
    /\ RecReturned
    /\ rec.sizeArg = 128
    /\ rec.lows = 10 /\ rec.probes = 10
    /\ rec.abortLevel = 10
    /\ rec.kernels = 9

\* The records results hold the parameters derived from the multiplier m on
\* a host of the given core count.
RecordsNominal(results, m, cores) ==
    /\ Len(results) >= 1 =>
         /\ results[1].size = 128 * m
         /\ results[1].num_processes = cores \div 2
         /\ results[1].iterations * m <= 1000
         /\ 1000 < (results[1].iterations + 1) * m
         /\ results[1].num_copies = 1000 * m
    /\ Len(results) >= 2 =>
         /\ results[2].size = 128 * m
         /\ results[2].depth = 10 * m

\* run_tests is past the derivation of lines 84-90.
RtDerived ==
    /\ caller = "run_tests"
    /\ pc \in {"mp_enter", "mp_submit", "mp_gather", "mp_raise", "mp_finish",
               "mp_returned", "rec_call", "rec", "rec_returned", "main_append"}

\* C19: the sizing policy never changes a round's derived parameters: the
\* locals of run_tests keep the derived values for the whole round, both
\* records carry them, and the recursion is started with the nominal size
\* and depth, whatever size the dispatcher ended with.
C19_DerivedParamsKept ==
    /\ RtDerived =>
         /\ rt.size = 128 * rt.size_mult
         /\ rt.depth = 10 * rt.size_mult
         /\ rt.num_copies = 1000 * rt.size_mult
         /\ rt.num_processes = cpu_count \div 2
         /\ rt.iterations * rt.size_mult <= 1000
         /\ 1000 < (rt.iterations + 1) * rt.size_mult
         /\ RecordsNominal(rt.results, rt.size_mult, cpu_count)
    /\ (RtDerived /\ pc \in {"rec", "rec_returned"}) =>
         /\ rec.sizeArg = 128 * rt.size_mult
         /\ rec.depthArg = 10 * rt.size_mult
         /\ Len(stack) >= 1 => stack[1].sizeArg = 128 * rt.size_mult
    /\ \A i \in 1..Len(main.all_results) :
         RecordsNominal(main.all_results[i].results,
                        main.all_results[i].size_multiplier, cpu_count)

\* C19 witness: the dispatcher has returned having shrunk its size to 102
\* while the round's size, about to be recorded, is still 128.
C19_Witness ==
    /\ pc = "mp_returned"
    /\ caller = "run_tests"
    /\ mp.sizeArg = 128 /\ mp.size = 102
    /\ rt.size = 128

====
